---- MODULE Spec2Model ----
(***************************************************************************)
(* Snapshot processing pipeline of the study mood tracker.                 *)
(*                                                                         *)
(*   web-app/db_service.py          create_mood_snapshot, get_snapshot_view *)
(*   machine-learning-client/       MoodAnalyzer.process_pending_images,    *)
(*     mood_analyzer.py             MoodAnalyzer.run and the update helpers *)
(*   machine-learning-client/       main (inserts a document that has no    *)
(*     db_test.py                   image_data)                             *)
(*                                                                         *)
(* The web tier and the worker share only the mood_snapshots collection.   *)
(* A document is a function from the names of the fields it carries to     *)
(* their values, so that "the field is absent" and "the field is None" are *)
(* different things, as they are for a Python dict.                        *)
(***************************************************************************)
EXTENDS Integers, Sequences, FiniteSets, TLC

VARIABLES
    store,      \* the mood_snapshots collection, in insertion order
    wpc,        \* where MoodAnalyzer.run is
    batch,      \* documents of the cursor that the for loop has not reached yet
    werr,       \* the last exception that left process_pending_images
    writes,     \* per document: the update_one calls the server has applied
    lastOp,     \* the last call of the lifecycle service and what it returned
    boot,       \* MoodAnalyzer.__init__: attempts made, delays slept, db, session
    peer        \* wpc, batch and werr of a second worker instance, while it waits

vars == <<store, wpc, batch, werr, writes, lastOp, boot, peer>>

(***************************************************************************)
(* Bounds of the model.                                                    *)
(***************************************************************************)
MaxRecords == 1          \* documents inserted under Spec
MaxBatchRecords == 2     \* documents inserted under SpecBatch
MaxLiveRecords == 11     \* documents inserted under SpecLive
MaxLiveImages == 1       \* of which documents with an image
MaxDictLen == 2          \* items of a dict handed to categorize_mood under SpecMood
MaxProb == 2             \* largest value in such a dict

(***************************************************************************)
(* Python values.                                                          *)
(***************************************************************************)
None == "None"

\* dict.get(key) with the default None
Get(doc, key) == IF key \in DOMAIN doc THEN doc[key] ELSE None

\* dict.update(other) and the $set of update_one: the right operand wins
Update(doc, other) == other @@ doc

EmptyDict == <<>>

(***************************************************************************)
(* ObjectId and its text form: 24 hexadecimal characters.  A text is a     *)
(* sequence of one-character strings.                                      *)
(***************************************************************************)
HexChars == <<"0", "1", "2", "3", "4", "5", "6", "7", "8", "9",
              "a", "b", "c", "d", "e", "f">>

\* the value of each hexadecimal character
HexIndex ==
    [c \in {HexChars[i] : i \in 1..16} |->
        (CHOOSE i \in 1..16 : HexChars[i] = c) - 1]

HexVal(c) == HexIndex[c]

IsHex(c) == c \in DOMAIN HexIndex

\* str(ObjectId): the identifier n written on 24 hexadecimal digits
RECURSIVE HexDigits(_, _)
HexDigits(n, len) ==
    IF len = 0 THEN <<>>
    ELSE Append(HexDigits(n \div 16, len - 1), HexChars[(n % 16) + 1])

\* repr(ObjectId): ObjectId('...') around the 24 digits
OidRepr(n) ==
    <<"O", "b", "j", "e", "c", "t", "I", "d", "(", "'">>
    \o HexDigits(n, 24) \o <<"'", ")">>

OidStr(n) == HexDigits(n, 24)

\* bson.ObjectId.is_valid for a str argument
OidValid(s) == Len(s) = 24 /\ \A i \in 1..Len(s) : IsHex(s[i])

\* ObjectId(s) of a valid text: the value of its first len digits
RECURSIVE HexValue(_, _)
HexValue(s, len) ==
    IF len = 0 THEN 0
    ELSE 16 * HexValue(s, len - 1) + HexVal(s[len])

OidParse(s) == HexValue(s, Len(s))

(***************************************************************************)
(* Optional values: a function result that is either None or a value.      *)
(***************************************************************************)
Nothing == <<>>
Some(x) == <<x>>

(***************************************************************************)
(* Time.  datetime.utcnow() is read at every insert and update; the model  *)
(* lets one unit of time pass between two operations that the server       *)
(* applies, so the clock is the number of operations applied so far.       *)
(***************************************************************************)
RECURSIVE SumSeq(_)
SumSeq(s) == IF s = <<>> THEN 0 ELSE Head(s) + SumSeq(Tail(s))

utcnow == Len(store) + SumSeq(writes)

\* datetime.isoformat(): a text, not a datetime
isoformat(t) == [iso |-> t]

(***************************************************************************)
(* web-app/db_service.py                                                   *)
(***************************************************************************)

\* the document create_mood_snapshot hands to insert_one
NewSnapshotDoc(image_data, metadata) ==
    LET doc == [image_data |-> image_data,
                processed  |-> FALSE,
                created_at |-> utcnow]
    IN  IF metadata # Nothing /\ DOMAIN metadata[1] # {}
        THEN Update(doc, metadata[1])
        ELSE doc

\* insert_one: the server assigns the next ObjectId
insert_one(doc) == Append(store, Update(doc, [_id |-> Len(store) + 1]))

\* find_one() with the filter left out: the first document of the collection
find_one_unfiltered(oid) ==
    IF store # <<>> THEN Some(store[1]) ELSE Nothing

\* find_one({"_id": oid})
find_one(oid) ==
    IF oid \in 1..Len(store) THEN Some(store[oid]) ELSE Nothing

get_snapshot_by_id_raw(snapshot_id) ==
    IF ~OidValid(snapshot_id) THEN Nothing
    ELSE find_one(OidParse(snapshot_id))

\* the status rule with the error branch left out
StatusOfErrorIgnored(processed, error) ==
    IF ~processed THEN "pending" ELSE "done"

\* the status rule at the end of get_snapshot_view
StatusOf(processed, error) ==
    IF ~processed THEN "pending"
    ELSE IF error # None THEN "error"
    ELSE "done"

\* view[key] = doc.get(key): the key is in the view whatever the document has
CopyWithDefault(doc, key) ==
    [k \in {key} |-> Get(doc, key)]

\* copy doc[key] into the view under the same key when the document has it
CopyIfPresent(doc, key) ==
    IF key \in DOMAIN doc THEN [k \in {key} |-> doc[key]] ELSE EmptyDict

\* the view built from a document that was found
ViewOfDoc(doc) ==
    LET processed == IF "processed" \in DOMAIN doc THEN doc.processed ELSE FALSE
        error     == Get(doc, "error")
    IN  [id |-> OidStr(doc["_id"]), processed |-> processed,
         status |-> StatusOf(processed, error)]
        @@ (IF "created_at" \in DOMAIN doc
            THEN [created_at |-> isoformat(doc.created_at)] ELSE EmptyDict)
        @@ (IF "processed_at" \in DOMAIN doc
            THEN [processed_at |-> isoformat(doc.processed_at)] ELSE EmptyDict)
        @@ CopyIfPresent(doc, "mood")
        @@ CopyIfPresent(doc, "emotions")
        @@ CopyIfPresent(doc, "face_detected")
        @@ (IF error # None THEN [error |-> error] ELSE EmptyDict)

get_snapshot_view(snapshot_id) ==
    LET doc == get_snapshot_by_id_raw(snapshot_id)
    IN  IF doc = Nothing \/ DOMAIN doc[1] = {} THEN Nothing
        ELSE Some(ViewOfDoc(doc[1]))

(***************************************************************************)
(* The images of the model and what the external libraries (base64, cv2,   *)
(* the face cascade, the ONNX session) make of them.                       *)
(***************************************************************************)
ImgEmpty     == ""
ImgNoPrefix  == "iVBORw0KGgo="
ImgBadBase64 == "data:image/png;base64,xxx"
ImgNotImage  == "data:image/png;base64,bm90IGFuIGltYWdl"
ImgNoFace    == "data:image/png;base64,<landscape>"
ImgOneFace   == "data:image/png;base64,<portrait>"
ImgTwoFaces  == "data:image/png;base64,<two people>"

\* image_data.split(","): the number of parts
SplitParts(image_data) ==
    IF image_data \in {ImgEmpty, ImgNoPrefix} THEN 1 ELSE 2

\* base64.b64decode of the second part: binascii.Error on incorrect padding
Base64Ok(image_data) == image_data # ImgBadBase64

\* cv2.imdecode: the picture, or None when the bytes are not an image
imdecode(image_data) ==
    CASE image_data = ImgNoFace   -> "landscape"
      [] image_data = ImgOneFace  -> "portrait"
      [] image_data = ImgTwoFaces -> "two people"
      [] OTHER                    -> None

\* face_cascade.detectMultiScale: the regions in detector order
detect_faces(image) ==
    CASE image = "portrait"   -> <<"smiling face">>
      [] image = "two people" -> <<"sad face", "smiling face">>
      [] OTHER                -> <<>>

EMOTIONS == <<"neutral", "happiness", "surprise", "sadness", "anger",
              "disgust", "fear">>

\* session.run: the probabilities (in percent) in the order of EMOTIONS
ModelOutput(face_img) ==
    CASE face_img = "smiling face" -> <<10, 70, 10, 4, 3, 2, 1>>
      [] face_img = "sad face"     -> <<20, 5, 5, 50, 10, 5, 5>>
      [] OTHER                     -> <<100, 0, 0, 0, 0, 0, 0>>

\* a dict is the sequence of its <<key, value>> items in insertion order
predict_emotion(face_img) ==
    [i \in 1..Len(EMOTIONS) |-> <<EMOTIONS[i], ModelOutput(face_img)[i]>>]

\* a maximum that keeps the last key of maximal value
DominantEmotionLast(emotion_dict) ==
    LET best == CHOOSE i \in 1..Len(emotion_dict) :
                  /\ \A j \in 1..Len(emotion_dict) :
                        emotion_dict[j][2] <= emotion_dict[i][2]
                  /\ \A j \in (i + 1)..Len(emotion_dict) :
                        emotion_dict[j][2] < emotion_dict[i][2]
    IN  emotion_dict[best][1]

\* max(emotion_dict, key=emotion_dict.get): the first key of maximal value
DominantEmotion(emotion_dict) ==
    LET best == CHOOSE i \in 1..Len(emotion_dict) :
                  /\ \A j \in 1..Len(emotion_dict) :
                        emotion_dict[j][2] <= emotion_dict[i][2]
                  /\ \A j \in 1..(i - 1) :
                        emotion_dict[j][2] < emotion_dict[i][2]
    IN  emotion_dict[best][1]

\* categorize_mood with fear left out of the unhappy emotions
categorize_mood_without_fear(emotion_dict) ==
    IF emotion_dict = <<>> THEN "unknown"
    ELSE LET dominant_emotion == DominantEmotion(emotion_dict)
         IN  IF dominant_emotion \in {"happiness"} THEN "happy"
             ELSE IF dominant_emotion \in {"sadness", "anger", "disgust"}
                  THEN "unhappy"
             ELSE IF dominant_emotion \in {"surprise"} THEN "focused"
             ELSE "neutral"

categorize_mood(emotion_dict) ==
    IF emotion_dict = <<>> THEN "unknown"
    ELSE LET dominant_emotion == DominantEmotion(emotion_dict)
         IN  IF dominant_emotion \in {"happiness"} THEN "happy"
             ELSE IF dominant_emotion \in {"sadness", "anger", "disgust", "fear"}
                  THEN "unhappy"
             ELSE IF dominant_emotion \in {"surprise"} THEN "focused"
             ELSE "neutral"

(***************************************************************************)
(* Exceptions: a type and the text str(err) gives.                         *)
(***************************************************************************)
NoExc == [type |-> "none", msg |-> ""]

Exc(type, msg) == [type |-> type, msg |-> msg]

\* the except clause of process_pending_images
CaughtPerRecord == {"ValueError", "TypeError", "RuntimeError", "ConnectionFailure"}

\* the except clause of run, KeyboardInterrupt apart
CaughtByRun == {"RuntimeError", "ConnectionFailure", "ValueError", "TypeError"}

\* _decode_image: what it returns (val) or raises (exc)
decode_image(image_data) ==
    IF SplitParts(image_data) < 2
    THEN [exc |-> Exc("IndexError", "list index out of range"), val |-> None]
    ELSE IF ~Base64Ok(image_data)
    THEN [exc |-> Exc("ValueError", "Incorrect padding"), val |-> None]
    ELSE [exc |-> NoExc, val |-> imdecode(image_data)]

(***************************************************************************)
(* The store as the worker writes it.  db holds the collection and, per    *)
(* document, the number of updates the server has applied.                 *)
(*                                                                         *)
(* What update_one does is the server's choice:                            *)
(*   "ok"       applied and acknowledged                                   *)
(*   "lost"     the connection fails before the server applies the update  *)
(*   "unacked"  the server applies the update and the connection fails     *)
(*              before the reply arrives                                   *)
(*   "refused"  the server rejects the command (OperationFailure)          *)
(***************************************************************************)
WriteOutcomes == {"ok", "lost", "unacked", "refused"}

WriteApplied(outcome) == outcome \in {"ok", "unacked"}

WriteRaises(outcome) ==
    CASE outcome = "ok"      -> NoExc
      [] outcome = "refused" -> Exc("OperationFailure", "not authorized")
      [] OTHER               -> Exc("ConnectionFailure", "connection closed")

Clock(db) == Len(db.store) + SumSeq(db.writes)

\* the document of that id is there with processed = true
DocProcessedIn(docs, snapshot_id) ==
    /\ snapshot_id \in 1..Len(docs)
    /\ "processed" \in DOMAIN docs[snapshot_id]
    /\ docs[snapshot_id].processed = TRUE

\* mood_snapshots.replace_one({"_id": snapshot_id}, fields): the document
\* becomes the fields and its _id
update_one_replacing(db, snapshot_id, fields, outcome) ==
    [db  |-> IF WriteApplied(outcome) /\ snapshot_id \in 1..Len(db.store)
             THEN [store  |-> [db.store EXCEPT ![snapshot_id] =
                                  Update(fields, [_id |-> snapshot_id])],
                   writes |-> [db.writes EXCEPT ![snapshot_id] = @ + 1]]
             ELSE db,
     exc |-> WriteRaises(outcome)]

\* mood_snapshots.update_one({"_id": snapshot_id}, {"$set": fields})
update_one(db, snapshot_id, fields, outcome) ==
    [db  |-> IF WriteApplied(outcome) /\ snapshot_id \in 1..Len(db.store)
             THEN [store  |-> [db.store EXCEPT ![snapshot_id] = Update(@, fields)],
                   writes |-> [db.writes EXCEPT ![snapshot_id] = @ + 1]]
             ELSE db,
     exc |-> WriteRaises(outcome)]

\* _update_snapshot_with_face that refuses a document another worker has
\* already written and records that as its error
update_snapshot_with_face_once(db, snapshot_id, emotions, mood, outcome) ==
    IF DocProcessedIn(db.store, snapshot_id)
    THEN update_one(db, snapshot_id,
                    [error        |-> "already processed",
                     processed_at |-> Clock(db)],
                    outcome)
    ELSE update_one(db, snapshot_id,
                    [processed     |-> TRUE,
                     face_detected |-> TRUE,
                     emotions      |-> emotions,
                     mood          |-> mood,
                     processed_at  |-> Clock(db)],
                    outcome)

update_snapshot_with_face(db, snapshot_id, emotions, mood, outcome) ==
    update_one(db, snapshot_id,
               [processed     |-> TRUE,
                face_detected |-> TRUE,
                emotions      |-> emotions,
                mood          |-> mood,
                processed_at  |-> Clock(db)],
               outcome)

\* _update_snapshot_no_face that issues delete_one for a snapshot without a
\* face
update_snapshot_no_face_deleting(db, snapshot_id, outcome) ==
    LET RemoveAt(seq) == SubSeq(seq, 1, snapshot_id - 1)
                         \o SubSeq(seq, snapshot_id + 1, Len(seq))
    IN  [db  |-> IF WriteApplied(outcome) /\ snapshot_id \in 1..Len(db.store)
                 THEN [store  |-> RemoveAt(db.store),
                       writes |-> RemoveAt(db.writes)]
                 ELSE db,
         exc |-> WriteRaises(outcome)]

update_snapshot_no_face(db, snapshot_id, outcome) ==
    update_one(db, snapshot_id,
               [processed     |-> TRUE,
                face_detected |-> FALSE,
                processed_at  |-> Clock(db)],
               outcome)

\* mark_snapshot_error that hands the document back to the next poll
mark_snapshot_error_retry(db, snapshot_id, error_msg, outcome) ==
    update_one(db, snapshot_id,
               [processed    |-> FALSE,
                error        |-> error_msg,
                processed_at |-> Clock(db)],
               outcome)

mark_snapshot_error(db, snapshot_id, error_msg, outcome) ==
    update_one(db, snapshot_id,
               [processed    |-> TRUE,
                error        |-> error_msg,
                processed_at |-> Clock(db)],
               outcome)

\* the try block of process_pending_images for one snapshot
TryBlock(db, snapshot_id, image_data, w1) ==
    LET dec == decode_image(image_data)
    IN  IF dec.exc # NoExc THEN [db |-> db, exc |-> dec.exc]
        ELSE IF dec.val = None
        THEN mark_snapshot_error(db, snapshot_id, "Failed to decode image", w1)
        ELSE LET faces == detect_faces(dec.val)
             IN  IF faces = <<>>
                 THEN update_snapshot_no_face(db, snapshot_id, w1)
                 ELSE LET emotions == predict_emotion(faces[1])
                          mood     == categorize_mood(emotions)
                      IN  update_snapshot_with_face(db, snapshot_id,
                                                    emotions, mood, w1)

\* the test "if image_data is None" in the place of "if not image_data"
SkippedWhenNone(snapshot) ==
    Get(snapshot, "image_data") = None

\* "if not image_data" of process_pending_images
Skipped(snapshot) ==
    Get(snapshot, "image_data") = None \/ Get(snapshot, "image_data") = ""

\* find({"processed": False}).limit(10): natural (insertion) order
BatchLimit == 10

\* find({"processed": False}) without limit(10)
PendingUnlimited(docs, limit) ==
    LET IsPending(doc) == "processed" \in DOMAIN doc /\ doc.processed = FALSE
    IN  SelectSeq(docs, IsPending)

RECURSIVE Pending(_, _)
Pending(docs, limit) ==
    IF docs = <<>> \/ limit = 0 THEN <<>>
    ELSE IF "processed" \in DOMAIN Head(docs) /\ Head(docs).processed = FALSE
    THEN <<Head(docs)>> \o Pending(Tail(docs), limit - 1)
    ELSE Pending(Tail(docs), limit)

\* what the query does is the server's choice
FindOutcomes == {"ok", "lost", "refused"}

(***************************************************************************)
(* Inputs of the operations.                                               *)
(***************************************************************************)
NoteMeta      == [user_id |-> "u123"]
ProcessedMeta == [processed |-> TRUE]
MoodMeta      == [mood |-> "happy"]
ErrorMeta     == [error |-> "client note"]
ErrorNoneMeta == [error |-> None]

\* <<image_data, metadata>> arguments of create_mood_snapshot
CreateInputs ==
    {<<img, Nothing>> : img \in {ImgEmpty, ImgNoPrefix, ImgBadBase64, ImgNotImage,
                                 ImgNoFace, ImgOneFace, ImgTwoFaces}}
    \cup {<<ImgOneFace, Some(EmptyDict)>>, <<ImgOneFace, Some(NoteMeta)>>,
          <<ImgOneFace, Some(ProcessedMeta)>>, <<ImgNoFace, Some(MoodMeta)>>,
          <<ImgOneFace, Some(ErrorMeta)>>, <<ImgOneFace, Some(ErrorNoneMeta)>>}

\* snapshot_id arguments of get_snapshot_view
IdInputs ==
    {OidStr(n) : n \in 1..(MaxRecords + 1)}
    \cup {<<>>, <<"n", "o", "t", "-", "a", "n", "-", "i", "d">>,
          [i \in 1..24 |-> IF i = 24 THEN "g" ELSE "0"]}

(***************************************************************************)
(* The state machine.                                                      *)
(***************************************************************************)
\* __init__ has returned: one successful connection attempt, model loaded
Booted == [attempts |-> 1, delays |-> <<>>, loads |-> 1,
           db |-> "study_mood_tracker", session |-> "InferenceSession"]

\* no second worker instance
NoPeer == [wpc |-> "none", batch |-> <<>>, werr |-> NoExc]

Init ==
    /\ store = <<>>
    /\ writes = <<>>
    /\ wpc = "poll"
    /\ batch = <<>>
    /\ werr = NoExc
    /\ lastOp = [op |-> "none", id |-> <<>>, ret |-> Nothing]
    /\ boot = Booted
    /\ peer = NoPeer

\* create_mood_snapshot(image_data, metadata)
CreateSnapshot(inputs, limit) ==
    /\ Len(store) < limit
    /\ \E input \in inputs :
          store' = insert_one(NewSnapshotDoc(input[1], input[2]))
    /\ writes' = Append(writes, 0)
    /\ lastOp' = [op |-> "create", id |-> OidStr(Len(store) + 1), ret |-> Nothing]
    /\ UNCHANGED <<wpc, batch, werr, boot, peer>>

\* db_test.py main: a pending document without image_data
InsertTestDoc(limit) ==
    /\ Len(store) < limit
    /\ store' = insert_one([test       |-> TRUE,
                            note       |-> "inserted from db_test.py",
                            processed  |-> FALSE,
                            created_at |-> utcnow])
    /\ writes' = Append(writes, 0)
    /\ UNCHANGED <<wpc, batch, werr, lastOp, boot, peer>>

\* get_snapshot_view that stamps the document it has read
GetViewStamping ==
    /\ \E snapshot_id \in IdInputs :
          /\ lastOp' = [op |-> "get_view", id |-> snapshot_id,
                        ret |-> get_snapshot_view(snapshot_id)]
          /\ store' = IF get_snapshot_view(snapshot_id) = Nothing THEN store
                      ELSE [store EXCEPT ![OidParse(snapshot_id)] =
                                            Update(@, [error |-> "viewed"])]
    /\ UNCHANGED <<writes, wpc, batch, werr, boot, peer>>

\* get_snapshot_view(snapshot_id)
GetView ==
    /\ \E snapshot_id \in IdInputs :
          lastOp' = [op |-> "get_view", id |-> snapshot_id,
                     ret |-> get_snapshot_view(snapshot_id)]
    /\ UNCHANGED <<store, writes, wpc, batch, werr, boot, peer>>

\* where an exception that leaves process_pending_images takes run
AfterException(exc) ==
    IF exc.type \in CaughtByRun THEN "backoff" ELSE "crashed"

\* process_pending_images: the query
Poll(outcomes) ==
    /\ wpc = "poll"
    /\ \E outcome \in outcomes :
          IF outcome = "ok"
          THEN /\ batch' = Pending(store, BatchLimit)
               /\ wpc' = "batch"
               /\ werr' = werr
          ELSE /\ batch' = <<>>
               /\ werr' = WriteRaises(outcome)
               /\ wpc' = AfterException(WriteRaises(outcome))
    /\ UNCHANGED <<store, writes, lastOp, boot, peer>>

\* process_pending_images: one turn of the for loop, up to the end of the
\* try block; an exception of the except clause's types is held in werr
HandleRecord(outcomes) ==
    /\ wpc = "batch"
    /\ batch # <<>>
    /\ IF Skipped(Head(batch))
       THEN /\ batch' = Tail(batch)
            /\ UNCHANGED <<store, writes, wpc, werr>>
       ELSE \E w1 \in outcomes :
               LET r == TryBlock([store |-> store, writes |-> writes],
                                 Head(batch)["_id"], Head(batch).image_data, w1)
               IN  /\ store' = r.db.store
                   /\ writes' = r.db.writes
                   /\ IF r.exc = NoExc
                      THEN /\ batch' = Tail(batch)
                           /\ UNCHANGED <<wpc, werr>>
                      ELSE IF r.exc.type \in CaughtPerRecord
                      THEN /\ wpc' = "except"
                           /\ werr' = r.exc
                           /\ batch' = batch
                      ELSE /\ batch' = <<>>
                           /\ werr' = r.exc
                           /\ wpc' = AfterException(r.exc)
    /\ UNCHANGED <<lastOp, boot, peer>>

\* process_pending_images: the except clause, for the snapshot at the head
HandleExcept(outcomes) ==
    /\ wpc = "except"
    /\ \E w2 \in outcomes :
          LET r == mark_snapshot_error([store |-> store, writes |-> writes],
                                       Head(batch)["_id"], werr.msg, w2)
          IN  /\ store' = r.db.store
              /\ writes' = r.db.writes
              /\ IF r.exc = NoExc
                 THEN /\ batch' = Tail(batch)
                      /\ wpc' = "batch"
                      /\ werr' = NoExc
                 ELSE /\ batch' = <<>>
                      /\ werr' = r.exc
                      /\ wpc' = AfterException(r.exc)
    /\ UNCHANGED <<lastOp, boot, peer>>

\* run: process_pending_images has returned, time.sleep(2) begins
EndBatch ==
    /\ wpc = "batch"
    /\ batch = <<>>
    /\ wpc' = "sleep"
    /\ UNCHANGED <<store, writes, batch, werr, lastOp, boot, peer>>

\* run: time.sleep(2) returns
SleepDone ==
    /\ wpc = "sleep"
    /\ wpc' = "poll"
    /\ UNCHANGED <<store, writes, batch, werr, lastOp, boot, peer>>

\* run: time.sleep(5) of the except clause returns
BackoffDone ==
    /\ wpc = "backoff"
    /\ wpc' = "poll"
    /\ werr' = NoExc
    /\ UNCHANGED <<store, writes, batch, lastOp, boot, peer>>

\* run: KeyboardInterrupt.  Inside the try statement it is caught and the
\* loop is left by break; in time.sleep(5), which the except clause of the
\* same try statement runs, nothing catches it and it leaves run
Interrupt ==
    /\ wpc \in {"poll", "batch", "except", "sleep", "backoff"}
    /\ wpc' = IF wpc = "backoff" THEN "interrupted" ELSE "stopped"
    /\ batch' = <<>>
    /\ werr' = IF wpc = "backoff" THEN Exc("KeyboardInterrupt", "") ELSE NoExc
    /\ UNCHANGED <<store, writes, lastOp, boot, peer>>

Next ==
    \/ CreateSnapshot(CreateInputs, MaxRecords)
    \/ InsertTestDoc(MaxRecords)
    \/ GetView
    \/ Poll(FindOutcomes)
    \/ HandleRecord(WriteOutcomes)
    \/ HandleExcept(WriteOutcomes)
    \/ EndBatch
    \/ SleepDone
    \/ BackoffDone
    \/ Interrupt

\* creations, worker cycles and view reads in any interleaving
Spec == Init /\ [][Next]_vars

NextBatch ==
    \/ CreateSnapshot(CreateInputs, MaxBatchRecords)
    \/ InsertTestDoc(MaxBatchRecords)
    \/ Poll(FindOutcomes)
    \/ HandleRecord(WriteOutcomes)
    \/ HandleExcept(WriteOutcomes)
    \/ EndBatch
    \/ SleepDone
    \/ BackoffDone
    \/ Interrupt

\* creations and worker cycles: batches of several documents
SpecBatch == Init /\ [][NextBatch]_vars

(***************************************************************************)
(* Polling under a worker that keeps running: the store answers every      *)
(* query and every write, nobody interrupts the worker, and the images     *)
(* are ones the pipeline handles without an exception.                     *)
(***************************************************************************)
RECURSIVE CountImages(_)
CountImages(docs) ==
    IF docs = <<>> THEN 0
    ELSE (IF "image_data" \in DOMAIN Head(docs) THEN 1 ELSE 0)
         + CountImages(Tail(docs))

CreateLive ==
    /\ CountImages(store) < MaxLiveImages
    /\ CreateSnapshot({<<ImgOneFace, Nothing>>}, MaxLiveRecords)

WorkerLive ==
    \/ Poll({"ok"})
    \/ HandleRecord({"ok"})
    \/ EndBatch
    \/ SleepDone

NextLive ==
    \/ CreateLive
    \/ InsertTestDoc(MaxLiveRecords)
    \/ WorkerLive

SpecLive == Init /\ [][NextLive]_vars /\ WF_vars(WorkerLive)

DocProcessed(doc) == "processed" \in DOMAIN doc /\ doc.processed = TRUE

DocPending(doc) == "processed" \in DOMAIN doc /\ doc.processed = FALSE

PendingAt(i) == i \in 1..Len(store) /\ DocPending(store[i])

InBatch(i) == \E k \in 1..Len(batch) : batch[k]["_id"] = i

\* C5: under a worker that keeps running, every pending document is
\* eventually part of a fetched batch (or no longer pending).
C5_EveryPendingAttempted ==
    \A i \in 1..MaxLiveRecords :
        PendingAt(i) ~> (InBatch(i) \/ ~PendingAt(i))

(***************************************************************************)
(* Properties.                                                             *)
(***************************************************************************)

\* the call that has just returned is a get_snapshot_view that found a document
ViewReturned == lastOp.op = "get_view" /\ lastOp.ret # Nothing

ErrorSet(doc) == "error" \in DOMAIN doc /\ doc.error # None

\* C1: the status of a view is "pending" when the raw document is not
\* processed, else "error" when its error is set, else "done"; a processed
\* document that carries an error and result fields has status "error".
C1_StatusDerivation ==
    [][(lastOp' # lastOp /\ ViewReturned')
        => \A call \in {lastOp'} :
           LET doc    == store[OidParse(call.id)]
               status == call.ret[1].status
           IN  /\ ~DocProcessed(doc) => status = "pending"
               /\ DocProcessed(doc) /\ ErrorSet(doc) => status = "error"
               /\ DocProcessed(doc) /\ ~ErrorSet(doc) => status = "done"]_vars

\* a view of a processed document that has an error and a mood was returned
C1_Witness ==
    /\ ViewReturned
    /\ lastOp.ret[1].processed
    /\ {"error", "mood", "emotions", "face_detected"} \subseteq DOMAIN lastOp.ret[1]
    /\ lastOp.ret[1].status = "error"

\* decoding, detection or inference raises for this snapshot
PipelineRaises(snapshot) ==
    ~Skipped(snapshot) /\ decode_image(snapshot.image_data).exc # NoExc

\* the step ends the handling of the snapshot at the head of the batch
EndsHandling ==
    /\ HandleRecord(WriteOutcomes) \/ HandleExcept(WriteOutcomes)
    /\ wpc' # "except"

\* C2: whatever exception the pipeline raises for a snapshot, the handling
\* of the snapshot ends with processed = true and error set on the document.
C2_AnyExceptionMarksError ==
    [][(EndsHandling /\ PipelineRaises(Head(batch)))
        => LET doc == store'[Head(batch)["_id"]]
           IN  DocProcessed(doc) /\ ErrorSet(doc)]_vars

\* the types of the exceptions the pipeline raises in this model
PipelineExcTypes ==
    {decode_image(input[1]).exc.type : input \in CreateInputs} \ {"none"}

\* C3: no failure of the pipeline on one snapshot leaves
\* process_pending_images; the batch goes on and so does run.
C3_FailureContained ==
    wpc \in {"backoff", "crashed"} => werr.type \notin PipelineExcTypes

\* C4: run ends only on KeyboardInterrupt; no other exception ends it.
C4_RunNeverDies == wpc # "crashed"

\* the view of the document that create_mood_snapshot has just returned
CreatedView == get_snapshot_view(lastOp.id)

\* C6: create_mood_snapshot with a non-empty image_data, whatever the
\* metadata, inserts one document with processed = false, and the view of
\* the returned id is then found with status "pending".
C6_CreateThenPending ==
    [][(lastOp' # lastOp /\ lastOp'.op = "create"
            /\ store'[Len(store')].image_data # "")
        => /\ Len(store') = Len(store) + 1
           /\ DocPending(store'[Len(store')])
           /\ CreatedView' # Nothing
           /\ CreatedView'[1].status = "pending"]_vars

\* C7: a document whose processed field is true keeps it true.
C7_ProcessedNeverReverts ==
    [][\A i \in 1..Len(store) :
          DocProcessed(store[i]) => DocProcessed(store'[i])]_vars

\* a processed document has been written a second time
C7_Witness ==
    \E i \in 1..Len(store) : DocProcessed(store[i]) /\ writes[i] >= 2

\* C8: the worker writes a document at most once.
C8_WrittenAtMostOnce == \A i \in 1..Len(store) : writes[i] <= 1

\* C9: a processed document has one of the shapes (a) face_detected = true
\* with emotions and mood and no error, (b) face_detected = false with no
\* emotions, no mood and no error, (c) error set.
C9_TerminalShapes ==
    \A i \in 1..Len(store) :
        LET doc == store[i]
            fd  == "face_detected" \in DOMAIN doc
        IN  DocProcessed(doc) =>
               \/ ErrorSet(doc)
               \/ /\ fd /\ doc.face_detected = TRUE
                  /\ {"emotions", "mood"} \subseteq DOMAIN doc
               \/ /\ fd /\ doc.face_detected = FALSE
                  /\ {"emotions", "mood"} \cap DOMAIN doc = {}

\* C10: a document has processed_at exactly when its processed is true.
C10_ProcessedAtIffProcessed ==
    \A i \in 1..Len(store) :
        ("processed_at" \in DOMAIN store[i]) <=> DocProcessed(store[i])

RESULT_KEYS == {"mood", "emotions", "face_detected"}

\* C11: the view of a document whose processed is false has none of the
\* keys mood, emotions, face_detected.
C11_PendingViewHasNoResults ==
    \A i \in 1..Len(store) :
        ~DocProcessed(store[i])
            => LET view == get_snapshot_view(OidStr(i))
               IN  view # Nothing => RESULT_KEYS \cap DOMAIN view[1] = {}

\* "not image_data" holds of the document: the field is absent, None or ""
NoImageData(doc) ==
    "image_data" \notin DOMAIN doc \/ doc.image_data \in {None, ""}

\* C12: the turn of the for loop on a pending document without image_data
\* writes nothing (the document stays as it was, processed = false) and the
\* loop goes on with the rest of the batch.
C12_SkipLeavesRecord ==
    [][(wpc = "batch" /\ batch # <<>> /\ NoImageData(Head(batch))
            /\ HandleRecord(WriteOutcomes))
        => /\ store' = store
           /\ writes' = writes
           /\ ~DocProcessed(store'[Head(batch)["_id"]])
           /\ batch' = Tail(batch)
           /\ wpc' = "batch"]_vars

\* the first document has no image_data and was never written, and the
\* document fetched after it in the same batch has been processed
C12_Witness ==
    /\ Len(store) = 2
    /\ NoImageData(store[1]) /\ DocPending(store[1]) /\ writes[1] = 0
    /\ DocProcessed(store[2]) /\ writes[2] >= 1

\* _decode_image returns a picture for the document's image_data
Decodes(doc) ==
    /\ ~NoImageData(doc)
    /\ decode_image(doc.image_data).exc = NoExc
    /\ decode_image(doc.image_data).val # None

\* _decode_image raises or returns None for the document's image_data
DecodeFails(doc) == ~NoImageData(doc) /\ ~Decodes(doc)

\* the regions detect_faces returns for the document's picture
FacesOf(doc) == detect_faces(decode_image(doc.image_data).val)

\* the step ends the handling of the snapshot at the head of the batch and
\* the store has applied and acknowledged the update it was sent, if any
AckedTurn ==
    /\ HandleRecord({"ok"}) \/ HandleExcept({"ok"})
    /\ wpc' # "except"

\* C13: the handling of a snapshot whose image_data fails to decode ends
\* with processed = true and error set, without a result of detection or
\* inference written, and the view of the snapshot has status "error".
C13_DecodeFailureMarksError ==
    [][(wpc \in {"batch", "except"} /\ batch # <<>>
            /\ DecodeFails(Head(batch)) /\ AckedTurn)
        => LET id   == Head(batch)["_id"]
               doc  == store'[id]
               view == ViewOfDoc(doc)
           IN  /\ DocProcessed(doc)
               /\ ErrorSet(doc)
               /\ RESULT_KEYS \cap DOMAIN doc = RESULT_KEYS \cap DOMAIN store[id]
               /\ view.status = "error"]_vars

\* C14: the handling of a snapshot whose picture has no face ends with
\* processed = true, face_detected = false, no emotions, no mood and no
\* error on the document, and the view of the snapshot has status "done".
C14_NoFaceMarksDone ==
    [][(wpc = "batch" /\ batch # <<>>
            /\ Decodes(Head(batch)) /\ FacesOf(Head(batch)) = <<>>
            /\ HandleRecord({"ok"}))
        => LET id   == Head(batch)["_id"]
               doc  == store'[id]
               view == ViewOfDoc(doc)
           IN  /\ DocProcessed(doc)
               /\ "face_detected" \in DOMAIN doc /\ doc.face_detected = FALSE
               /\ {"emotions", "mood"} \cap DOMAIN doc = {}
               /\ ~ErrorSet(doc)
               /\ view.status = "done"]_vars

\* the moods categorize_mood gives to a distribution that is not empty
FaceMoods == {"happy", "unhappy", "focused", "neutral"}

\* C15: the handling of a snapshot whose picture has one or more faces
\* ends with processed = true, face_detected = true, the emotions inferred
\* for the first region and the mood categorize_mood gives them on the
\* document, and the view of the snapshot has status "done" and a mood
\* among happy, unhappy, focused, neutral.
C15_FirstFaceMarksDone ==
    [][(wpc = "batch" /\ batch # <<>>
            /\ Decodes(Head(batch)) /\ FacesOf(Head(batch)) # <<>>
            /\ HandleRecord({"ok"}))
        => LET id   == Head(batch)["_id"]
               doc  == store'[id]
               view == ViewOfDoc(doc)
           IN  /\ DocProcessed(doc)
               /\ "face_detected" \in DOMAIN doc /\ doc.face_detected = TRUE
               /\ {"emotions", "mood"} \subseteq DOMAIN doc
               /\ doc.emotions = predict_emotion(FacesOf(Head(batch))[1])
               /\ doc.mood = categorize_mood(doc.emotions)
               /\ view.status = "done"
               /\ view.mood \in FaceMoods]_vars

(***************************************************************************)
(* categorize_mood on its own: the dicts a caller can hand to it, items in *)
(* any insertion order, keys among EMOTIONS and one label outside them.    *)
(***************************************************************************)
OtherLabel == "contempt"

Labels == {EMOTIONS[i] : i \in 1..Len(EMOTIONS)} \cup {OtherLabel}

\* a dict has no key twice
MoodInputs ==
    {d \in UNION {[1..n -> Labels \X (0..MaxProb)] : n \in 0..MaxDictLen} :
        \A i, j \in 1..Len(d) : i # j => d[i][1] # d[j][1]}

\* lastOp.id holds the argument of the call
InitMood ==
    /\ store = <<>>
    /\ writes = <<>>
    /\ wpc = "poll"
    /\ batch = <<>>
    /\ werr = NoExc
    /\ lastOp \in {[op |-> "input", id |-> d, ret |-> Nothing] : d \in MoodInputs}
    /\ boot = Booted
    /\ peer = NoPeer

\* categorize_mood(emotion_dict)
Categorize ==
    /\ lastOp.op = "input"
    /\ lastOp' = [op |-> "categorize_mood", id |-> lastOp.id,
                  ret |-> Some(categorize_mood(lastOp.id))]
    /\ UNCHANGED <<store, writes, wpc, batch, werr, boot, peer>>

NextMood == Categorize

SpecMood == InitMood /\ [][NextMood]_vars

\* categorize_mood has returned
Categorized == lastOp.op = "categorize_mood"

\* the mood of the mapping for one label
MoodOfLabel(label) ==
    CASE label = "happiness" -> "happy"
      [] label \in {"sadness", "anger", "disgust", "fear"} -> "unhappy"
      [] label = "surprise" -> "focused"
      [] OTHER -> "neutral"

\* the labels of maximal probability
MaxLabels(d) ==
    {d[k][1] : k \in {i \in 1..Len(d) : \A j \in 1..Len(d) : d[j][2] <= d[i][2]}}

\* C16: categorize_mood gives "unknown" to the empty dict and otherwise the
\* mood of a label of maximal probability (happiness: happy; sadness,
\* anger, disgust, fear: unhappy; surprise: focused; neutral and any other
\* label: neutral); the result is one of the five moods.
C16_CategorizeMapping ==
    Categorized
        => LET d == lastOp.id
               m == lastOp.ret[1]
           IN  /\ d = <<>> => m = "unknown"
               /\ d # <<>> => m \in {MoodOfLabel(l) : l \in MaxLabels(d)}
               /\ m \in FaceMoods \cup {"unknown"}

\* a dict in which fear alone has the maximal probability gave "unhappy"
C16_Witness ==
    /\ Categorized
    /\ Len(lastOp.id) >= 2
    /\ MaxLabels(lastOp.id) = {"fear"}
    /\ lastOp.ret = Some("unhappy")

\* the label of maximal probability that comes first in EMOTIONS
CanonicalFirst(d) ==
    EMOTIONS[CHOOSE i \in 1..Len(EMOTIONS) :
                /\ EMOTIONS[i] \in MaxLabels(d)
                /\ \A j \in 1..(i - 1) : EMOTIONS[j] \notin MaxLabels(d)]

\* the label of maximal probability that was inserted first
InsertedFirst(d) ==
    d[CHOOSE i \in 1..Len(d) :
         /\ d[i][1] \in MaxLabels(d)
         /\ \A j \in 1..(i - 1) : d[j][1] \notin MaxLabels(d)][1]

\* the keys are labels of EMOTIONS, some of them tied at the maximum
TiedEmotions(d) ==
    /\ Cardinality(MaxLabels(d)) >= 2
    /\ \A i \in 1..Len(d) : d[i][1] \in Labels \ {OtherLabel}

\* the position of a label in EMOTIONS
Position(label) == CHOOSE i \in 1..Len(EMOTIONS) : EMOTIONS[i] = label

\* the items were inserted in the order of EMOTIONS, as predict_emotion does
InsertedCanonically(d) ==
    \A i, j \in 1..Len(d) : i < j => Position(d[i][1]) < Position(d[j][1])

\* C17 (as stated): of several labels tied at the maximal probability,
\* categorize_mood takes the one that comes first in the order of EMOTIONS,
\* whatever the insertion order of the dict.
C17_TieCanonicalOrder ==
    (Categorized /\ TiedEmotions(lastOp.id))
        => lastOp.ret[1] = MoodOfLabel(CanonicalFirst(lastOp.id))

\* C17 (amended): of several labels tied at the maximal probability,
\* categorize_mood takes the one inserted first into the dict; that is the
\* first in the order of EMOTIONS when the dict was filled in that order.
C17_TieInsertionOrder ==
    (Categorized /\ Cardinality(MaxLabels(lastOp.id)) >= 2)
        => /\ lastOp.ret[1] = MoodOfLabel(InsertedFirst(lastOp.id))
           /\ (TiedEmotions(lastOp.id) /\ InsertedCanonically(lastOp.id))
                 => lastOp.ret[1] = MoodOfLabel(CanonicalFirst(lastOp.id))

\* a tie in a dict not filled in the order of EMOTIONS, decided for the
\* label inserted first against the order of EMOTIONS
C17_Witness ==
    /\ Categorized
    /\ TiedEmotions(lastOp.id)
    /\ ~InsertedCanonically(lastOp.id)
    /\ lastOp.ret[1] = MoodOfLabel(InsertedFirst(lastOp.id))
    /\ lastOp.ret[1] # MoodOfLabel(CanonicalFirst(lastOp.id))

\* get_snapshot_view has just returned
ViewCalled == lastOp.op = "get_view"

\* C18: get_snapshot_view returns None for an id that is not the text of
\* an ObjectId and for the text of an ObjectId that no document has.
C18_NoViewForBadId ==
    [][(lastOp' # lastOp /\ ViewCalled')
        => \A call \in {lastOp'} :
              (\/ ~OidValid(call.id)
               \/ \A i \in 1..Len(store) : store[i]["_id"] # OidParse(call.id))
                 => call.ret = Nothing]_vars

\* None was returned for a text of the right length that is not hexadecimal
\* while the collection holds a document
C18_Witness ==
    /\ ViewCalled
    /\ store # <<>>
    /\ Len(lastOp.id) = 24 /\ ~OidValid(lastOp.id)
    /\ lastOp.ret = Nothing

\* what get_snapshot_view returns for the id when the collection is docs
ViewIn(docs, snapshot_id) ==
    IF OidValid(snapshot_id) /\ OidParse(snapshot_id) \in 1..Len(docs)
    THEN Some(ViewOfDoc(docs[OidParse(snapshot_id)]))
    ELSE Nothing

\* C19: get_snapshot_view leaves every document as it was, and a second
\* call with the same id right after it returns the same view.
C19_ViewReadOnlyIdempotent ==
    [][(lastOp' # lastOp /\ ViewCalled')
        => /\ store' = store
           /\ writes' = writes
           /\ \A call \in {lastOp'} : \A docs \in {store'} :
                 ViewIn(docs, call.id) = call.ret]_vars

\* the view of a document the worker has written was returned and the
\* document is as the worker left it
C19_Witness ==
    /\ ViewReturned
    /\ writes[OidParse(lastOp.id)] >= 1
    /\ "processed_at" \in DOMAIN lastOp.ret[1]
    /\ ViewIn(store, lastOp.id) = lastOp.ret

\* C20 (as stated): each of mood, emotions, face_detected and error is in
\* the view exactly when it is on the document, with the same value; id,
\* processed and status are always in the view; processed_at is in the view
\* only when the document has it.
C20_SparseProjection ==
    [][(lastOp' # lastOp /\ ViewReturned')
        => \A call \in {lastOp'} :
           LET doc  == store[OidParse(call.id)]
               view == call.ret[1]
           IN  /\ \A key \in RESULT_KEYS \cup {"error"} :
                     /\ key \in DOMAIN view <=> key \in DOMAIN doc
                     /\ key \in DOMAIN view => view[key] = doc[key]
               /\ {"id", "processed", "status"} \subseteq DOMAIN view
               /\ "processed_at" \in DOMAIN view
                     => "processed_at" \in DOMAIN doc]_vars

\* C20 (amended): mood, emotions and face_detected are in the view exactly
\* when they are on the document, error exactly when it is on the document
\* with a value other than None, each with the same value; id, processed
\* and status are always in the view; processed_at is in the view only
\* when the document has it.
C20_SparseProjectionErrorNotNone ==
    [][(lastOp' # lastOp /\ ViewReturned')
        => \A call \in {lastOp'} :
           LET doc  == store[OidParse(call.id)]
               view == call.ret[1]
           IN  /\ \A key \in RESULT_KEYS :
                     /\ key \in DOMAIN view <=> key \in DOMAIN doc
                     /\ key \in DOMAIN view => view[key] = doc[key]
               /\ "error" \in DOMAIN view <=> ErrorSet(doc)
               /\ "error" \in DOMAIN view => view.error = doc.error
               /\ {"id", "processed", "status"} \subseteq DOMAIN view
               /\ "processed_at" \in DOMAIN view
                     => "processed_at" \in DOMAIN doc]_vars

\* the view of a document whose error is None was returned: it has the
\* results the worker wrote and no error
C20_Witness ==
    /\ ViewReturned
    /\ "error" \in DOMAIN store[OidParse(lastOp.id)]
    /\ store[OidParse(lastOp.id)].error = None
    /\ RESULT_KEYS \subseteq DOMAIN lastOp.ret[1]
    /\ "error" \notin DOMAIN lastOp.ret[1]

\* where run is while its loop is going
RunningPcs == {"poll", "batch", "except", "sleep", "backoff"}

\* C21: a KeyboardInterrupt at any point of run makes run return (the loop
\* is left by break, not by an exception), writes no document at that
\* step, and the worker writes and sleeps no more afterwards.
C21_InterruptStopsCleanly ==
    [][/\ (wpc \in RunningPcs /\ wpc' \in {"stopped", "interrupted"})
            => /\ wpc' = "stopped"
               /\ store' = store
               /\ writes' = writes
       /\ wpc = "stopped" => (wpc' = "stopped" /\ writes' = writes)]_vars

\* _connect_to_mongodb: max_retries and retry_delay
max_retries == 5
retry_delay == 5

\* MongoClient and client.admin.command("ping"): the server answers, no
\* server is selected or the socket fails, or the server refuses the command
ConnectOutcomes == {"ok", "lost", "refused"}

\* _load_model: the file is there or is downloaded first, and then
\* urlretrieve or InferenceSession can fail
LoadOutcomes == {"present", "downloaded", "download_failed", "load_failed"}

LoadRaises(outcome) ==
    CASE outcome = "download_failed" -> Exc("URLError", "urlopen error")
      [] outcome = "load_failed"     -> Exc("InvalidProtobuf", "load model failed")
      [] OTHER                       -> NoExc

\* __init__ up to the call of _connect_to_mongodb
NotBooted == [attempts |-> 0, delays |-> <<>>, loads |-> 0,
              db |-> None, session |-> None]

\* main: MoodAnalyzer(mongodb_uri) is being constructed
InitStart ==
    /\ store = <<>>
    /\ writes = <<>>
    /\ wpc = "connect"
    /\ batch = <<>>
    /\ werr = NoExc
    /\ lastOp = [op |-> "none", id |-> <<>>, ret |-> Nothing]
    /\ boot = NotBooted
    /\ peer = NoPeer

\* _connect_to_mongodb whose last failed attempt ends the for loop
\* without raise
ConnectFallingThrough(outcomes) ==
    /\ wpc = "connect"
    /\ boot.attempts < max_retries
    /\ \E outcome \in outcomes :
          LET attempt == boot.attempts
              exc     == WriteRaises(outcome)
          IN  IF exc = NoExc
              THEN /\ boot' = [boot EXCEPT !.attempts = @ + 1,
                                           !.db = "study_mood_tracker"]
                   /\ wpc' = "load_model"
                   /\ werr' = NoExc
              ELSE IF exc.type = "ConnectionFailure"
              THEN IF attempt < max_retries - 1
                   THEN /\ boot' = [boot EXCEPT !.attempts = @ + 1,
                                        !.delays = Append(@, retry_delay)]
                        /\ wpc' = "retry_sleep"
                        /\ werr' = NoExc
                   ELSE /\ boot' = [boot EXCEPT !.attempts = @ + 1]
                        /\ wpc' = "load_model"
                        /\ werr' = NoExc
              ELSE /\ boot' = [boot EXCEPT !.attempts = @ + 1]
                   /\ wpc' = "fatal"
                   /\ werr' = exc
    /\ UNCHANGED <<store, writes, batch, lastOp, peer>>

\* _connect_to_mongodb: one turn of for attempt in range(max_retries), up
\* to return, to the call of time.sleep(retry_delay), or to the exception
\* that leaves __init__
Connect(outcomes) ==
    /\ wpc = "connect"
    /\ boot.attempts < max_retries
    /\ \E outcome \in outcomes :
          LET attempt == boot.attempts
              exc     == WriteRaises(outcome)
          IN  IF exc = NoExc
              THEN /\ boot' = [boot EXCEPT !.attempts = @ + 1,
                                           !.db = "study_mood_tracker"]
                   /\ wpc' = "load_model"
                   /\ werr' = NoExc
              ELSE IF exc.type = "ConnectionFailure"
              THEN IF attempt < max_retries - 1
                   THEN /\ boot' = [boot EXCEPT !.attempts = @ + 1,
                                        !.delays = Append(@, retry_delay)]
                        /\ wpc' = "retry_sleep"
                        /\ werr' = NoExc
                   ELSE /\ boot' = [boot EXCEPT !.attempts = @ + 1]
                        /\ wpc' = "fatal"
                        /\ werr' = exc
              ELSE /\ boot' = [boot EXCEPT !.attempts = @ + 1]
                   /\ wpc' = "fatal"
                   /\ werr' = exc
    /\ UNCHANGED <<store, writes, batch, lastOp, peer>>

\* _connect_to_mongodb: time.sleep(retry_delay) returns
RetrySleepDone ==
    /\ wpc = "retry_sleep"
    /\ wpc' = "connect"
    /\ UNCHANGED <<store, writes, batch, werr, lastOp, boot, peer>>

\* _load_model, the rest of __init__, and the entry of run
LoadModel(outcomes) ==
    /\ wpc = "load_model"
    /\ \E outcome \in outcomes :
          IF LoadRaises(outcome) = NoExc
          THEN /\ boot' = [boot EXCEPT !.loads = @ + 1,
                                       !.session = "InferenceSession"]
               /\ wpc' = "poll"
               /\ werr' = NoExc
          ELSE /\ boot' = [boot EXCEPT !.loads = @ + 1]
               /\ wpc' = "fatal"
               /\ werr' = LoadRaises(outcome)
    /\ UNCHANGED <<store, writes, batch, lastOp, peer>>

NextStart ==
    \/ Connect(ConnectOutcomes)
    \/ RetrySleepDone
    \/ LoadModel(LoadOutcomes)
    \/ CreateSnapshot(CreateInputs, MaxRecords)
    \/ Poll(FindOutcomes)
    \/ HandleRecord(WriteOutcomes)
    \/ HandleExcept(WriteOutcomes)
    \/ EndBatch
    \/ SleepDone
    \/ BackoffDone
    \/ Interrupt

\* the worker process from main on, with the web app creating snapshots
SpecStart == InitStart /\ [][NextStart]_vars

\* where the worker is once __init__ has connected
ConnectedPcs == RunningPcs \cup {"load_model", "stopped", "interrupted", "crashed"}

ConnectCounts ==
    /\ boot.attempts <= max_retries
    /\ Len(boot.delays) <= max_retries - 1
    /\ \A i \in 1..Len(boot.delays) : boot.delays[i] = retry_delay
    /\ Len(boot.delays) = IF wpc \in {"connect", "retry_sleep"}
                          THEN boot.attempts ELSE boot.attempts - 1
    /\ (wpc = "fatal" /\ werr.type = "ConnectionFailure")
          => boot.attempts = max_retries
    /\ wpc \in ConnectedPcs => boot.db # None

\* C22: the connection is attempted at most max_retries times, a delay of
\* retry_delay is slept between two attempts and none after the last one,
\* no attempt follows a successful one, the connection failure is raised
\* from __init__ after the last failed attempt, and run starts only with
\* a connection.
C22_BoundedConnect ==
    /\ []ConnectCounts
    /\ [][boot.db # None => boot'.attempts = boot.attempts]_vars

C22_Witness ==
    /\ wpc = "fatal"
    /\ werr.type = "ConnectionFailure"
    /\ boot.attempts = max_retries
    /\ Len(boot.delays) = max_retries - 1

\* what _download_model and ort.InferenceSession raise
ModelLoadErrors == {"URLError", "InvalidProtobuf"}

\* C23: a failure to load or download the model at start is retried: the
\* start fails with it only after more than one load attempt.
C23_ModelLoadRetried ==
    (wpc = "fatal" /\ werr.type \in ModelLoadErrors) => boot.loads > 1


\* C25: create_mood_snapshot inserts no document whose image_data is empty
\* or missing: a call with such an image_data leaves the collection as it
\* was.
C25_NoInvalidRecordInserted ==
    [][(lastOp' # lastOp /\ lastOp'.op = "create")
        => \A docs \in {store'} : ~NoImageData(docs[Len(docs)])]_vars


(***************************************************************************)
(* The web application: the three /api/snapshots handlers of create_app.   *)
(***************************************************************************)
\* what create_app keeps in app.config["DB"]
DBHandle == "Database(study_mood_tracker)"

\* the attributes of the Flask object that create_app uses; the request of
\* the current call is flask.request, which the module does not import
FlaskAppAttributes == {"config", "route"}

\* def get_snapshot_view(snapshot_id) and
\* def create_mood_snapshot(image_data, metadata=None)
get_snapshot_view_params == <<"snapshot_id">>
create_mood_snapshot_params == <<"image_data", "metadata">>

\* jsonify(body), status
Response(status, body) == [status |-> status, body |-> body]

\* what a block of a handler ends with: a returned response, or an
\* exception; docs is the collection afterwards
Returned(resp, docs) == [ret |-> Some(resp), exc |-> NoExc, docs |-> docs]
Raised(exc, docs) == [ret |-> Nothing, exc |-> exc, docs |-> docs]

\* "not payload or 'image_data' not in payload"
PayloadRejected(payload) ==
    \/ payload = Nothing
    \/ DOMAIN payload[1] = {}
    \/ "image_data" \notin DOMAIN payload[1]

\* create_mood_snapshot(app.config["DB"], payload["image_data"]): the
\* handle is bound to image_data and the image string to metadata, so
\* doc.update(metadata) raises on a non-empty string, and with "" the
\* document holding the handle cannot be encoded by insert_one
create_mood_snapshot_call(args) ==
    IF Len(args) > Len(create_mood_snapshot_params)
    THEN Raised(Exc("TypeError", "too many positional arguments"), store)
    ELSE IF args[2] # ""
    THEN Raised(Exc("ValueError", "dictionary update sequence element"), store)
    ELSE Raised(Exc("InvalidDocument", "cannot encode object"), store)

\* api_create_snapshot: the try block
api_create_snapshot_try(payload) ==
    IF "request" \notin FlaskAppAttributes
    THEN Raised(Exc("AttributeError", "'Flask' object has no attribute 'request'"),
                store)
    ELSE IF PayloadRejected(payload)
    THEN Returned(Response(400, [error |-> "Missing image_data"]), store)
    ELSE create_mood_snapshot_call(<<DBHandle, payload[1].image_data>>)

\* api_create_snapshot
api_create_snapshot(payload) ==
    LET r == api_create_snapshot_try(payload)
    IN  IF r.exc = NoExc THEN r
        ELSE [ret  |-> Some(Response(500, [error |-> "failed to create snapshot"])),
              exc  |-> r.exc,
              docs |-> r.docs]

\* api_get_snapshot: the try block
api_get_snapshot_try(snapshot_id) ==
    IF Len(<<DBHandle, snapshot_id>>) > Len(get_snapshot_view_params)
    THEN Raised(Exc("TypeError", "takes 1 positional argument but 2 were given"),
                store)
    ELSE LET snapshot_view == get_snapshot_view(snapshot_id)
         IN  IF snapshot_view = Nothing
             THEN Returned(Response(404, [error |-> "not found"]), store)
             ELSE Returned(Response(200, snapshot_view[1]), store)

\* api_get_snapshot without its except clause
api_get_snapshot_uncaught(snapshot_id) ==
    api_get_snapshot_try(snapshot_id)

\* api_get_snapshot
api_get_snapshot(snapshot_id) ==
    LET r == api_get_snapshot_try(snapshot_id)
    IN  IF r.exc = NoExc THEN r
        ELSE [ret  |-> Some(Response(500, [error |-> "failed to fetch snapshot"])),
              exc  |-> r.exc,
              docs |-> r.docs]

\* the number of snapshots a listing returns
ListLimit == 20

\* one item of a listing
ListItem(doc) ==
    LET view == ViewOfDoc(doc)
    IN  [id |-> view.id, processed |-> view.processed,
         mood |-> Get(doc, "mood"), face_detected |-> Get(doc, "face_detected"),
         created_at |-> Get(view, "created_at"), status |-> view.status]

\* the oldest documents first, at most limit of them
OldestItems(docs, limit) ==
    [k \in 1..(IF Len(docs) < limit THEN Len(docs) ELSE limit)
        |-> ListItem(docs[k])]

\* the most recent documents first, at most limit of them
RECURSIVE RecentItems(_, _)
RecentItems(docs, limit) ==
    IF docs = <<>> \/ limit = 0 THEN <<>>
    ELSE <<ListItem(docs[Len(docs)])>>
         \o RecentItems(SubSeq(docs, 1, Len(docs) - 1), limit - 1)

\* list_recent_snapshots(db)
list_recent_snapshots(outcome) ==
    IF WriteRaises(outcome) # NoExc THEN [val |-> <<>>, exc |-> WriteRaises(outcome)]
    ELSE [val |-> RecentItems(store, ListLimit), exc |-> NoExc]

\* api_list_snapshots: the try block
api_list_snapshots_try(outcome) ==
    LET snapshots == list_recent_snapshots(outcome)
    IN  IF snapshots.exc # NoExc THEN Raised(snapshots.exc, store)
        ELSE Returned(Response(200, [count |-> Len(snapshots.val),
                                     items |-> snapshots.val]), store)

\* api_list_snapshots
api_list_snapshots(outcome) ==
    LET r == api_list_snapshots_try(outcome)
    IN  IF r.exc = NoExc THEN r
        ELSE [ret  |-> Some(Response(500, [error |-> "failed to list snapshots"])),
              exc  |-> r.exc,
              docs |-> r.docs]

\* JSON bodies of POST /api/snapshots: null, {}, no image_data, an empty
\* and a non-empty image_data
PayloadInputs ==
    {Nothing, Some(EmptyDict), Some(NoteMeta),
     Some([image_data |-> ImgEmpty]), Some([image_data |-> ImgOneFace])}

\* POST /api/snapshots
ApiCreate(payloads) ==
    /\ \E payload \in payloads :
          LET r == api_create_snapshot(payload)
          IN  /\ lastOp' = [op |-> "api_create", id |-> payload,
                            ret |-> r.ret, exc |-> r.exc]
              /\ store' = r.docs
              /\ writes' = IF Len(r.docs) > Len(store)
                           THEN Append(writes, 0) ELSE writes
    /\ UNCHANGED <<wpc, batch, werr, boot, peer>>

\* GET /api/snapshots/<snapshot_id>
ApiGet ==
    /\ \E snapshot_id \in IdInputs :
          LET r == api_get_snapshot(snapshot_id)
          IN  lastOp' = [op |-> "api_get", id |-> snapshot_id,
                         ret |-> r.ret, exc |-> r.exc]
    /\ UNCHANGED <<store, writes, wpc, batch, werr, boot, peer>>

\* GET /api/snapshots
ApiList(outcomes) ==
    /\ \E outcome \in outcomes :
          LET r == api_list_snapshots(outcome)
          IN  lastOp' = [op |-> "api_list", id |-> <<>>,
                         ret |-> r.ret, exc |-> r.exc]
    /\ UNCHANGED <<store, writes, wpc, batch, werr, boot, peer>>

NextApi ==
    \/ ApiCreate(PayloadInputs)
    \/ ApiGet
    \/ ApiList(FindOutcomes)
    \/ CreateSnapshot(CreateInputs, MaxRecords)
    \/ Poll(FindOutcomes)
    \/ HandleRecord(WriteOutcomes)
    \/ HandleExcept(WriteOutcomes)
    \/ EndBatch
    \/ SleepDone
    \/ BackoffDone
    \/ Interrupt

\* requests to the web application while the worker runs
SpecApi == Init /\ [][NextApi]_vars

ApiOps == {"api_create", "api_get", "api_list"}

\* C24: a creation request without payload, without image_data or with an
\* empty image_data is answered with status 400 and a body with an error
\* message, and inserts nothing.
C24_BadPayloadGets400 ==
    [][\A call \in {lastOp'} :
          (call # lastOp /\ call.op = "api_create"
             /\ (PayloadRejected(call.id) \/ call.id[1].image_data = ""))
          => /\ call.ret # Nothing
             /\ call.ret[1].status = 400
             /\ "error" \in DOMAIN call.ret[1].body
             /\ store' = store]_vars

\* C26: a creation request with a non-empty image_data inserts one
\* snapshot with that image_data and is answered with status 200 and the
\* body {"id": <the id of that snapshot>}.
C26_CreateAnswersId ==
    [][\A call \in {lastOp'} : \A docs \in {store'} :
          (call # lastOp /\ call.op = "api_create"
             /\ ~PayloadRejected(call.id) /\ call.id[1].image_data # "")
          => /\ Len(docs) = Len(store) + 1
             /\ SubSeq(docs, 1, Len(store)) = store
             /\ docs[Len(docs)].image_data = call.id[1].image_data
             /\ call.ret = Some(Response(200, [id |-> OidStr(Len(docs))]))]_vars

\* C27: a retrieval request is answered 404 with {"error": "not found"}
\* exactly when get_snapshot_view returns None for the id, and otherwise
\* with status 200 and the view as body.
C27_GetAnswersViewOr404 ==
    [][\A call \in {lastOp'} : \A docs \in {store'} :
          (call # lastOp /\ call.op = "api_get")
          => call.ret = IF ViewIn(docs, call.id) = Nothing
                        THEN Some(Response(404, [error |-> "not found"]))
                        ELSE Some(Response(200, ViewIn(docs, call.id)[1]))]_vars

\* C28: every request to the three handlers ends with a response (a status
\* and a JSON object), and when an exception was raised while handling it
\* the body has an error field: no exception leaves a handler.
C28_AlwaysStructuredResponse ==
    lastOp.op \in ApiOps
    => /\ lastOp.ret # Nothing
       /\ DOMAIN lastOp.ret[1] = {"status", "body"}
       /\ lastOp.ret[1].status \in {200, 400, 404, 500}
       /\ lastOp.exc # NoExc => "error" \in DOMAIN lastOp.ret[1].body

C28_Witness ==
    /\ lastOp.op = "api_get"
    /\ lastOp.exc.type = "TypeError"
    /\ lastOp.ret = Some(Response(500, [error |-> "failed to fetch snapshot"]))


\* C29: whenever get_snapshot_view reads a document that the worker
\* updates, it sees the document before the update or with the whole
\* update applied: a view of a document the worker has written with
\* processed = true has processed_at, and a view with processed = false
\* has none of mood, emotions, face_detected and error.
C29_ReaderSeesBeforeOrAfter ==
    \A i \in 1..Len(store) :
        LET view == ViewOfDoc(store[i])
        IN  /\ (writes[i] >= 1 /\ view.processed = TRUE)
                  => "processed_at" \in DOMAIN view
            /\ view.processed = FALSE
                  => DOMAIN view \cap (RESULT_KEYS \cup {"error"}) = {}


(***************************************************************************)
(* Two worker processes on one collection.  wpc, batch and werr are those  *)
(* of the process that takes the next step, peer holds the other one's.    *)
(***************************************************************************)
MaxTwoRecords == 1

\* a second MoodAnalyzer about to poll
PeerStarted == [wpc |-> "poll", batch |-> <<>>, werr |-> NoExc]

InitTwo ==
    /\ store = <<>>
    /\ writes = <<>>
    /\ wpc = "poll"
    /\ batch = <<>>
    /\ werr = NoExc
    /\ lastOp = [op |-> "none", id |-> <<>>, ret |-> Nothing]
    /\ boot = Booted
    /\ peer = PeerStarted

\* the scheduler runs the other process
Switch ==
    /\ peer # NoPeer
    /\ peer' = [wpc |-> wpc, batch |-> batch, werr |-> werr]
    /\ wpc' = peer.wpc
    /\ batch' = peer.batch
    /\ werr' = peer.werr
    /\ UNCHANGED <<store, writes, lastOp, boot>>

NextTwo ==
    \/ CreateSnapshot(CreateInputs, MaxTwoRecords)
    \/ Poll(FindOutcomes)
    \/ HandleRecord({"ok"})
    \/ HandleExcept({"ok"})
    \/ EndBatch
    \/ SleepDone
    \/ BackoffDone
    \/ Interrupt
    \/ Switch

\* two workers in any interleaving of their steps; the store acknowledges
\* every write
SpecTwo == InitTwo /\ [][NextTwo]_vars

TERMINAL_KEYS == {"processed", "face_detected", "emotions", "mood", "error"}

\* the outcome a document holds
Outcome(doc) == [k \in TERMINAL_KEYS \cap DOMAIN doc |-> doc[k]]

C31_NeverDeleted ==
    [][\A docs \in {store'} :
          docs # store
          => /\ Len(docs) >= Len(store)
             /\ \A i \in 1..Len(store) :
                   /\ docs[i]["_id"] = store[i]["_id"]
                   /\ ViewIn(docs, OidStr(store[i]["_id"])) # Nothing]_vars

\* a created snapshot that the worker has since written and a read has
\* found
C31_Witness ==
    /\ lastOp.op = "get_view"
    /\ lastOp.ret # Nothing
    /\ \E i \in 1..Len(store) :
          lastOp.id = OidStr(store[i]["_id"]) /\ writes[i] >= 1


(***************************************************************************)
(* The listing on collections of up to MaxListRecords snapshots.           *)
(***************************************************************************)
MaxListRecords == 21

\* what the collection holds: snapshots nobody has processed yet, or
\* pending, done and failed ones in turn
ListPatterns == {"pending", "mixed"}

\* the image of the i-th snapshot
ListImage(i, pattern) ==
    IF pattern = "mixed" /\ i % 3 = 2 THEN ImgNotImage ELSE ImgOneFace

\* n snapshots as create_mood_snapshot inserted them one after the other
CreatedDocs(n, pattern) ==
    [i \in 1..n |-> [image_data |-> ListImage(i, pattern),
                     processed  |-> FALSE,
                     created_at |-> i - 1,
                     _id        |-> i]]

\* the collection after the worker has handled the snapshots from i on
\* that the pattern has it handle
RECURSIVE Worked(_, _, _)
Worked(db, i, pattern) ==
    IF i > Len(db.store) THEN db
    ELSE IF pattern = "mixed" /\ i % 3 # 0
    THEN Worked(TryBlock(db, i, db.store[i].image_data, "ok").db, i + 1, pattern)
    ELSE Worked(db, i + 1, pattern)

ListDbs ==
    {Worked([store |-> CreatedDocs(n, pattern), writes |-> [i \in 1..n |-> 0]],
            1, pattern) : n \in 0..MaxListRecords, pattern \in ListPatterns}

InitList ==
    /\ \E db \in ListDbs : store = db.store /\ writes = db.writes
    /\ wpc = "poll"
    /\ batch = <<>>
    /\ werr = NoExc
    /\ lastOp = [op |-> "none", id |-> <<>>, ret |-> Nothing]
    /\ boot = Booted
    /\ peer = NoPeer

NextList ==
    \/ CreateSnapshot({<<ImgOneFace, Nothing>>}, MaxListRecords)
    \/ ApiList(FindOutcomes)

\* listings of collections of any size up to MaxListRecords
SpecList == InitList /\ [][NextList]_vars

\* C32: a listing that succeeds returns the 20 most recent snapshots (all
\* of them when there are fewer), the most recent first by created_at,
\* count is the number of items, and the status of an item is "pending"
\* for processed = false, "error" for processed = true with an error and
\* "done" for processed = true without.
C32_ListingRecentTwenty ==
    [][\A call \in {lastOp'} :
          (call # lastOp /\ call.op = "api_list" /\ call.exc = NoExc)
          => LET body  == call.ret[1].body
                 items == body.items
                 at    == [k \in 1..Len(items) |-> OidParse(items[k].id)]
                 oldest == store[at[Len(items)]].created_at
             IN  /\ call.ret[1].status = 200
                 /\ body.count = Len(items)
                 /\ Len(items) = IF Len(store) < 20 THEN Len(store) ELSE 20
                 /\ Cardinality({at[k] : k \in 1..Len(items)}) = Len(items)
                 /\ \A k \in 1..Len(items) :
                       /\ at[k] \in 1..Len(store)
                       /\ items[k].status =
                             IF ~DocProcessed(store[at[k]]) THEN "pending"
                             ELSE IF Get(store[at[k]], "error") # None THEN "error"
                             ELSE "done"
                       /\ k < Len(items)
                             => store[at[k]].created_at
                                   >= store[at[k + 1]].created_at
                 /\ \A j \in 1..Len(store) :
                       j \notin {at[k] : k \in 1..Len(items)}
                       => store[j].created_at <= oldest]_vars

\* a listing of more than 20 snapshots of every status
C32_Witness ==
    /\ lastOp.op = "api_list"
    /\ lastOp.exc = NoExc
    /\ Len(store) > 20
    /\ Len(lastOp.ret[1].body.items) = 20
    /\ \A status \in {"pending", "done", "error"} :
          \E k \in 1..20 : lastOp.ret[1].body.items[k].status = status


\* where run is inside process_pending_images
CyclePcs == {"poll", "batch", "except"}

\* C33: a cycle of run that ends without an exception is followed by
\* time.sleep(2), a cycle that an exception ends is followed by
\* time.sleep(5) and not by time.sleep(2), and after either sleep the next
\* cycle begins (steps of an interrupt apart).
C33_OneSleepPerCycle ==
    [][/\ (wpc \in CyclePcs /\ wpc' \notin CyclePcs
             /\ wpc' \notin {"stopped", "interrupted"})
          => wpc' = IF werr' = NoExc THEN "sleep" ELSE "backoff"
       /\ (wpc \in {"sleep", "backoff"} /\ wpc' # wpc
             /\ wpc' \notin {"stopped", "interrupted"})
          => wpc' = "poll"]_vars


\* C34: a poll fetches at most 10 documents, each with processed = false
\* as it is in the collection, in the collection's order; the for loop
\* goes through them one by one in that order, each once; and a step
\* changes no document other than the one the loop is at.
C34_BatchDiscipline ==
    [][\A b \in {batch'} : \A docs \in {store'} :
          /\ (wpc = "poll" /\ wpc' = "batch")
             => /\ Len(b) <= 10
                /\ \A k \in 1..Len(b) :
                      /\ b[k]["_id"] \in 1..Len(store)
                      /\ b[k] = store[b[k]["_id"]]
                      /\ b[k].processed = FALSE
                      /\ k < Len(b) => b[k]["_id"] < b[k + 1]["_id"]
          /\ (wpc = "batch" /\ wpc' = "batch" /\ b # batch)
             => (batch # <<>> /\ b = Tail(batch))
          /\ \A i \in 1..Len(store) :
                docs[i] # store[i]
                => /\ wpc \in {"batch", "except"}
                   /\ batch # <<>>
                   /\ Head(batch)["_id"] = i]_vars

\* eleven pending documents, ten of them fetched
C34_Witness ==
    /\ wpc = "batch"
    /\ Len(batch) = 10
    /\ Len(store) = 11
    /\ \A i \in 1..Len(store) : DocPending(store[i])


(***************************************************************************)
(* Cycles that are abandoned and taken up again: the store can fail any    *)
(* query and any write, but not for ever, and a worker whose process has   *)
(* ended is started again.                                                 *)
(***************************************************************************)
MaxRetryRecords == 2

RetryInputs ==
    {<<img, Nothing>> : img \in {ImgNoPrefix, ImgNotImage, ImgOneFace}}

\* main is run again after the process has ended
Restart ==
    /\ wpc \in {"crashed", "interrupted", "stopped"}
    /\ wpc' = "poll"
    /\ batch' = <<>>
    /\ werr' = NoExc
    /\ UNCHANGED <<store, writes, lastOp, boot, peer>>

\* steps that need nothing from the store
WorkerRetry ==
    \/ EndBatch
    \/ SleepDone
    \/ BackoffDone
    \/ Restart

NextRetry ==
    \/ CreateSnapshot(RetryInputs, MaxRetryRecords)
    \/ Poll(FindOutcomes)
    \/ HandleRecord(WriteOutcomes)
    \/ HandleExcept(WriteOutcomes)
    \/ WorkerRetry

SpecRetry ==
    /\ Init
    /\ [][NextRetry]_vars
    /\ WF_vars(WorkerRetry)
    /\ SF_vars(Poll({"ok"}))
    /\ SF_vars(HandleRecord({"ok"}))
    /\ SF_vars(HandleExcept({"ok"}))

\* the for loop of process_pending_images is at document i
Attempted(i) ==
    /\ wpc \in {"batch", "except"}
    /\ batch # <<>>
    /\ Head(batch)["_id"] = i

\* C35: whatever ends a cycle early, a document is changed only by a write
\* that makes it processed, so that the documents the cycle did not get to
\* are pending as they were; and every pending document is attempted in
\* some later cycle.
C35_AtLeastOnce ==
    /\ [][\A docs \in {store'} : \A i \in 1..Len(store) :
             docs[i] # store[i] => DocProcessed(docs[i])]_vars
    /\ \A i \in 1..MaxRetryRecords :
          PendingAt(i) ~> (Attempted(i) \/ ~PendingAt(i))


\* the keys of the three $set documents
WORKER_KEYS == {"processed", "processed_at", "face_detected", "emotions",
                "mood", "error"}

\* C36: a write of the worker keeps every field of the document that is
\* not one of processed, processed_at, face_detected, emotions, mood and
\* error (_id, image_data, created_at and the other metadata of the
\* creation) as it was, drops no field, and adds only fields of those six.
C36_WorkerWriteFrame ==
    [][\A docs \in {store'} : \A i \in 1..Len(store) :
          docs[i] # store[i]
          => /\ DOMAIN store[i] \subseteq DOMAIN docs[i]
             /\ DOMAIN docs[i] \ DOMAIN store[i] \subseteq WORKER_KEYS
             /\ \A key \in DOMAIN store[i] \ WORKER_KEYS :
                   docs[i][key] = store[i][key]]_vars

\* a snapshot created with metadata that the worker has written
C36_Witness ==
    \E i \in 1..Len(store) :
        /\ writes[i] >= 1
        /\ DocProcessed(store[i])
        /\ Get(store[i], "user_id") = "u123"
        /\ Get(store[i], "image_data") = ImgOneFace


\* the status get_snapshot_view reports for the document
StatusIn(doc) == ViewOfDoc(doc).status

\* C37: once get_snapshot_view can report "done" or "error" for a document,
\* it reports that status for it ever after: no step changes the status
\* of a document whose status is "done" or "error".
C37_StatusMonotonic ==
    [][\A docs \in {store'} : \A i \in 1..Len(store) :
          (docs[i] # store[i] /\ StatusIn(store[i]) \in {"done", "error"})
          => StatusIn(docs[i]) = StatusIn(store[i])]_vars


\* the id create_mood_snapshot returned for the document
ReturnedId(doc) == OidStr(doc["_id"])

\* C38: the id create_mood_snapshot returns is the id of the document it
\* has inserted and of no document that was there before:
\* get_snapshot_view of it returns the view of that document, with that
\* id.
C38_IdRoundTrip ==
    [][\A call \in {lastOp'} : \A docs \in {store'} :
          (call # lastOp /\ call.op = "create")
          => /\ Len(docs) = Len(store) + 1
             /\ call.id = ReturnedId(docs[Len(docs)])
             /\ ViewIn(docs, call.id) = Some(ViewOfDoc(docs[Len(docs)]))
             /\ ViewIn(docs, call.id)[1].id = call.id
             /\ \A j \in 1..Len(store) : ReturnedId(store[j]) # call.id]_vars

\* two snapshots created one after the other, the second one just now
C38_Witness ==
    /\ lastOp.op = "create"
    /\ Len(store) = 2
    /\ lastOp.id = ReturnedId(store[2])
    /\ "image_data" \in DOMAIN store[1]

====
